---------------------------- MODULE Spec2Model ----------------------------
(***************************************************************************)
(* Model of the ontology dependency graph builder of celine.ontologies     *)
(* (src/celine/ontologies/analyze.py): OntologyAnalyzer, matches_keywords  *)
(* and the analyze_ontologies pipeline.                                     *)
(*                                                                         *)
(* Strings are sequences of one-character strings, so that the string      *)
(* operations of the code (rstrip, rsplit, split, lower, replace, sorted)  *)
(* are computed and not assumed.  Python's None and the empty string are   *)
(* both the empty sequence: the code only ever tests them by truthiness    *)
(* ("if not src", "ns or None", "normalize_ns(tns) or ...").               *)
(***************************************************************************)
EXTENDS Integers, Sequences, FiniteSets, TLC

(***************************************************************************)
(* Characters                                                              *)
(***************************************************************************)

\* The characters of the model's strings, in code point order.
Ascii ==
    <<"#", "-", ".", "/", "0", "1", "2", "3", "4", "5", "6", "7", "8", "9", ":",
      "A", "B", "C", "D", "E", "F", "G", "H", "I", "J", "K", "L", "M",
      "N", "O", "P", "Q", "R", "S", "T", "U", "V", "W", "X", "Y", "Z", "_",
      "a", "b", "c", "d", "e", "f", "g", "h", "i", "j", "k", "l", "m",
      "n", "o", "p", "q", "r", "s", "t", "u", "v", "w", "x", "y", "z">>

Upper ==
    <<"A", "B", "C", "D", "E", "F", "G", "H", "I", "J", "K", "L", "M",
      "N", "O", "P", "Q", "R", "S", "T", "U", "V", "W", "X", "Y", "Z">>

Lower ==
    <<"a", "b", "c", "d", "e", "f", "g", "h", "i", "j", "k", "l", "m",
      "n", "o", "p", "q", "r", "s", "t", "u", "v", "w", "x", "y", "z">>

Digit == <<"0", "1", "2", "3", "4", "5", "6", "7", "8", "9">>

Range(f) == {f[i] : i \in DOMAIN f}

IndexOf(seq, c) == CHOOSE i \in DOMAIN seq : seq[i] = c

\* ord(c)
Ord(c) == IndexOf(Ascii, c)

\* str.lower on one character
UpperChars == Range(Upper)
LowerChar(c) == IF c \in UpperChars THEN Lower[IndexOf(Upper, c)] ELSE c

\* Python's string order (sorted() on str): lexicographic by code point.
RECURSIVE StrLess(_, _)
StrLess(a, b) ==
    IF b = <<>> THEN FALSE
    ELSE IF a = <<>> THEN TRUE
    ELSE IF Head(a) = Head(b) THEN StrLess(Tail(a), Tail(b))
    ELSE Ord(Head(a)) < Ord(Head(b))

\* sorted(S) for a set of strings
RECURSIVE SortedStrs(_)
SortedStrs(S) ==
    IF S = {} THEN <<>>
    ELSE LET m == CHOOSE x \in S : \A y \in S \ {x} : StrLess(x, y)
         IN  <<m>> \o SortedStrs(S \ {m})

\* s.rstrip(chars)
RECURSIVE RStrip(_, _)
RStrip(s, chars) ==
    IF s # <<>> /\ s[Len(s)] \in chars THEN RStrip(SubSeq(s, 1, Len(s) - 1), chars)
    ELSE s

\* the positions of s holding character c
Positions(s, c) == {i \in DOMAIN s : s[i] = c}

Max(S) == CHOOSE x \in S : \A y \in S : y <= x

\* s.rsplit(c, 1)[0], for s containing c
RSplitHead(s, c) == SubSeq(s, 1, Max(Positions(s, c)) - 1)

\* s.split(c)[-1]
SplitLast(s, c) ==
    IF Positions(s, c) = {} THEN s
    ELSE SubSeq(s, Max(Positions(s, c)) + 1, Len(s))

\* s.replace(a, b) for single characters
ReplaceChar(s, a, b) == [i \in DOMAIN s |-> IF s[i] = a THEN b ELSE s[i]]

\* s.lower()
LowerStr(s) == [i \in DOMAIN s |-> LowerChar(s[i])]

\* str(n) for n >= 0
RECURSIVE IntStr(_)
IntStr(n) ==
    IF n < 10 THEN <<Digit[n + 1]>>
    ELSE IntStr(n \div 10) \o <<Digit[(n % 10) + 1]>>

(***************************************************************************)
(* Namespace Resolver                                                      *)
(***************************************************************************)

\* Python None (and the empty string, see the head of the module)
None == <<>>

\* normalize_ns: strip trailing "/" and "#", None if empty
normalize_ns(ns) ==
    IF ns = None THEN None ELSE RStrip(ns, {"/", "#"})

\* rdflib.namespace.split_uri as called by _get_namespace: unicode categories
\* of the model's characters.  NAME_CATEGORIES holds letters and digits,
\* SPLIT_START_CATEGORIES too, ALLOWED_NAME_CHARS holds "-", ".", "_", "%",
\* "(" and ")" (and two middle dots, which no string of the model holds).
\* ":" is not among them: it stops the scan like "/" and "#".
NameChars == Range(Upper) \cup Range(Lower) \cup Range(Digit)
IsNameChar(c) == c \in NameChars
IsAllowedNameChar(c) == c \in {"-", ".", "_", "%", "(", ")"}
IsSplitStart(c) == IsNameChar(c) \/ c = "_"

\* rdflib.namespace.XMLNS
XMLNS ==
    <<"h", "t", "t", "p", ":", "/", "/", "w", "w", "w", ".", "w", "3", ".",
      "o", "r", "g", "/", "X", "M", "L", "/", "1", "9", "9", "8", "/", "n",
      "a", "m", "e", "s", "p", "a", "c", "e">>

\* s.startswith(prefix)
StartsWithStr(s, prefix) ==
    Len(s) >= Len(prefix) /\ SubSeq(s, 1, Len(prefix)) = prefix

\* split_uri(uri): <<ok, ns>>; ok = FALSE stands for the ValueError.  A URI
\* that starts with XMLNS splits right after it.  Otherwise, scanning from the
\* end, the first character that is neither a name character nor an allowed
\* one stops the scan; from there forward (and, as range(-1 - i, length) runs
\* through 0, again from the start) the first split-start character begins
\* the local name.  An empty namespace part raises.
split_uri(uri) ==
    LET n == Len(uri)
        stops == {k \in 1..n : ~IsNameChar(uri[k]) /\ ~IsAllowedNameChar(uri[k])}
    IN  IF StartsWithStr(uri, XMLNS) THEN <<TRUE, XMLNS>>
        ELSE IF stops = {} THEN <<FALSE, None>>
        ELSE LET b == Max(stops)
                 tail == {k \in b..n : IsSplitStart(uri[k])}
                 wrap == {k \in 1..n : IsSplitStart(uri[k])}
                 j == IF tail # {} THEN CHOOSE k \in tail : \A m \in tail : k <= m
                      ELSE IF wrap # {} THEN CHOOSE k \in wrap : \A m \in wrap : k <= m
                      ELSE 0
             IN  IF j <= 1 THEN <<FALSE, None>>
                 ELSE <<TRUE, SubSeq(uri, 1, j - 1)>>

\* A term of a triple: [kind |-> "uri" | "bnode" | "literal", val |-> string]
IsURIRef(node) == node.kind = "uri"

\* OntologyAnalyzer._get_namespace
get_namespace(node) ==
    IF ~IsURIRef(node) THEN None
    ELSE LET sp == split_uri(node.val)
         IN  IF sp[1] THEN normalize_ns(sp[2])
             ELSE IF "#" \in Range(node.val)
                  THEN normalize_ns(RSplitHead(node.val, "#"))
             ELSE IF "/" \in Range(node.val)
                  THEN normalize_ns(RSplitHead(node.val, "/"))
             ELSE None

(***************************************************************************)
(* OntologyAnalyzer: data structures and core helpers                      *)
(***************************************************************************)

unknown == <<"u", "n", "k", "n", "o", "w", "n">>

\* An empty dict
EmptyMap == [x \in {} |-> 0]

\* dict.get(k, default)
Get(d, k, default) == IF k \in DOMAIN d THEN d[k] ELSE default

\* d with d[k] = v
Put(d, k, v) == [x \in DOMAIN d \cup {k} |-> IF x = k THEN v ELSE d[x]]

\* OntologyStats(namespace=ns): the dataclass defaults.  The per-namespace
\* imports field of the dataclass is never read or written and is left out.
OntologyStats(ns) ==
    [namespace |-> ns, files |-> {}, triples |-> 0, classes |-> 0,
     properties |-> 0, individuals |-> 0, label |-> None, description |-> None]

\* OntologyAnalyzer.__init__
NewAnalyzer == [namespaces |-> EmptyMap, references |-> EmptyMap, imports |-> EmptyMap]

\* the key _ensure_ns creates or finds
ensure_key(raw_ns) ==
    IF normalize_ns(raw_ns) = None THEN unknown ELSE normalize_ns(raw_ns)

\* OntologyAnalyzer._ensure_ns, as the analyzer after the call
ensure_ns(self, raw_ns) ==
    LET ns == ensure_key(raw_ns)
    IN  IF ns \in DOMAIN self.namespaces THEN self
        ELSE [self EXCEPT !.namespaces = Put(self.namespaces, ns, OntologyStats(ns))]

\* Variant of _register_reference that stores the weight instead of adding it
register_reference_overwrite(self, raw_src, raw_dst, weight) ==
    LET src == normalize_ns(raw_src)
        dst == normalize_ns(raw_dst)
    IN  IF src = None \/ dst = None \/ src = dst THEN self
        ELSE LET targets == Get(self.references, src, EmptyMap)
             IN  [self EXCEPT !.references =
                     Put(self.references, src, Put(targets, dst, weight))]

\* OntologyAnalyzer._register_reference
register_reference(self, raw_src, raw_dst, weight) ==
    LET src == normalize_ns(raw_src)
        dst == normalize_ns(raw_dst)
    IN  IF src = None \/ dst = None \/ src = dst THEN self
        ELSE LET targets == Get(self.references, src, EmptyMap)
             IN  [self EXCEPT !.references =
                     Put(self.references, src,
                         Put(targets, dst, Get(targets, dst, 0) + weight))]

\* Variant of _register_import that does not add the import to the Reference Table
register_import_no_reference(self, raw_src, raw_dst) ==
    LET src == normalize_ns(raw_src)
        dst == normalize_ns(raw_dst)
    IN  IF src = None \/ dst = None \/ src = dst THEN self
        ELSE [self EXCEPT !.imports =
                 Put(self.imports, src, Get(self.imports, src, {}) \cup {dst})]

\* Variant of _register_import without the "src == dst" test
register_import_self(self, raw_src, raw_dst) ==
    LET src == normalize_ns(raw_src)
        dst == normalize_ns(raw_dst)
    IN  IF src = None \/ dst = None THEN self
        ELSE register_reference(
                 [self EXCEPT !.imports =
                     Put(self.imports, src, Get(self.imports, src, {}) \cup {dst})],
                 src, dst, 1)

\* OntologyAnalyzer._register_import
register_import(self, raw_src, raw_dst) ==
    LET src == normalize_ns(raw_src)
        dst == normalize_ns(raw_dst)
    IN  IF src = None \/ dst = None \/ src = dst THEN self
        ELSE register_reference(
                 [self EXCEPT !.imports =
                     Put(self.imports, src, Get(self.imports, src, {}) \cup {dst})],
                 src, dst, 1)

(***************************************************************************)
(* Vocabulary                                                              *)
(***************************************************************************)

URIRef(s) == [kind |-> "uri", val |-> s]
BNode(s) == [kind |-> "bnode", val |-> s]
Literal(s) == [kind |-> "literal", val |-> s]

RDF_NS == <<"h", "t", "t", "p", ":", "/", "/", "w", "w", "w", ".", "w", "3", ".", "o", "r", "g", "/", "1", "9", "9", "9", "/", "0", "2", "/", "2", "2", "-", "r", "d", "f", "-", "s", "y", "n", "t", "a", "x", "-", "n", "s", "#">>
RDFS_NS == <<"h", "t", "t", "p", ":", "/", "/", "w", "w", "w", ".", "w", "3", ".", "o", "r", "g", "/", "2", "0", "0", "0", "/", "0", "1", "/", "r", "d", "f", "-", "s", "c", "h", "e", "m", "a", "#">>
OWL_NS == <<"h", "t", "t", "p", ":", "/", "/", "w", "w", "w", ".", "w", "3", ".", "o", "r", "g", "/", "2", "0", "0", "2", "/", "0", "7", "/", "o", "w", "l", "#">>
DCTERMS_NS == <<"h", "t", "t", "p", ":", "/", "/", "p", "u", "r", "l", ".", "o", "r", "g", "/", "d", "c", "/", "t", "e", "r", "m", "s", "/">>
DC_NS == <<"h", "t", "t", "p", ":", "/", "/", "p", "u", "r", "l", ".", "o", "r", "g", "/", "d", "c", "/", "e", "l", "e", "m", "e", "n", "t", "s", "/", "1", ".", "1", "/">>

RDF_type == URIRef(RDF_NS \o <<"t", "y", "p", "e">>)
RDF_Property == URIRef(RDF_NS \o <<"P", "r", "o", "p", "e", "r", "t", "y">>)
RDFS_Class == URIRef(RDFS_NS \o <<"C", "l", "a", "s", "s">>)
RDFS_subClassOf == URIRef(RDFS_NS \o <<"s", "u", "b", "C", "l", "a", "s", "s", "O", "f">>)
RDFS_subPropertyOf == URIRef(RDFS_NS \o <<"s", "u", "b", "P", "r", "o", "p", "e", "r", "t", "y", "O", "f">>)
RDFS_seeAlso == URIRef(RDFS_NS \o <<"s", "e", "e", "A", "l", "s", "o">>)
RDFS_label == URIRef(RDFS_NS \o <<"l", "a", "b", "e", "l">>)
RDFS_comment == URIRef(RDFS_NS \o <<"c", "o", "m", "m", "e", "n", "t">>)
OWL_Class == URIRef(OWL_NS \o <<"C", "l", "a", "s", "s">>)
OWL_Ontology == URIRef(OWL_NS \o <<"O", "n", "t", "o", "l", "o", "g", "y">>)
OWL_imports == URIRef(OWL_NS \o <<"i", "m", "p", "o", "r", "t", "s">>)
OWL_ObjectProperty == URIRef(OWL_NS \o <<"O", "b", "j", "e", "c", "t", "P", "r", "o", "p", "e", "r", "t", "y">>)
OWL_DatatypeProperty == URIRef(OWL_NS \o <<"D", "a", "t", "a", "t", "y", "p", "e", "P", "r", "o", "p", "e", "r", "t", "y">>)
OWL_AnnotationProperty == URIRef(OWL_NS \o <<"A", "n", "n", "o", "t", "a", "t", "i", "o", "n", "P", "r", "o", "p", "e", "r", "t", "y">>)
OWL_OntologyProperty == URIRef(OWL_NS \o <<"O", "n", "t", "o", "l", "o", "g", "y", "P", "r", "o", "p", "e", "r", "t", "y">>)
OWL_equivalentClass == URIRef(OWL_NS \o <<"e", "q", "u", "i", "v", "a", "l", "e", "n", "t", "C", "l", "a", "s", "s">>)
OWL_equivalentProperty == URIRef(OWL_NS \o <<"e", "q", "u", "i", "v", "a", "l", "e", "n", "t", "P", "r", "o", "p", "e", "r", "t", "y">>)
OWL_sameAs == URIRef(OWL_NS \o <<"s", "a", "m", "e", "A", "s">>)
OWL_inverseOf == URIRef(OWL_NS \o <<"i", "n", "v", "e", "r", "s", "e", "O", "f">>)
DCTERMS_title == URIRef(DCTERMS_NS \o <<"t", "i", "t", "l", "e">>)
DCTERMS_description == URIRef(DCTERMS_NS \o <<"d", "e", "s", "c", "r", "i", "p", "t", "i", "o", "n">>)
DC_title == URIRef(DC_NS \o <<"t", "i", "t", "l", "e">>)
DC_description == URIRef(DC_NS \o <<"d", "e", "s", "c", "r", "i", "p", "t", "i", "o", "n">>)

CLASS_TYPES == {OWL_Class, RDFS_Class}

PROPERTY_TYPES ==
    {RDF_Property, OWL_ObjectProperty, OWL_DatatypeProperty,
     OWL_AnnotationProperty, OWL_OntologyProperty}

DEP_PREDICATES ==
    {RDFS_subClassOf, RDFS_subPropertyOf, OWL_equivalentClass,
     OWL_equivalentProperty, OWL_sameAs, OWL_inverseOf, RDFS_seeAlso}

(***************************************************************************)
(* RDF processing                                                          *)
(***************************************************************************)

\* stats.field += 1 / stats.files.add(file_str) on the entry of ns
bump(self, ns, field) ==
    [self EXCEPT !.namespaces[ns][field] = @ + 1]

\* Variant of the file attribution that keeps only the last file
add_file_last_wins(self, ns, file_str) ==
    [self EXCEPT !.namespaces[ns].files = {file_str}]

add_file(self, ns, file_str) ==
    [self EXCEPT !.namespaces[ns].files = @ \cup {file_str}]

\* The three rules of _process_dependencies_for_triple, as the sequence of
\* (source, destination) pairs handed to _register_reference, in code order.
rule_foreign_predicate(s, p, o) ==
    LET s_ns == get_namespace(s)
        p_ns == get_namespace(p)
    IN  IF s_ns # None /\ p_ns # None /\ s_ns # p_ns THEN <<<<s_ns, p_ns>>>> ELSE <<>>

rule_foreign_type(s, p, o) ==
    LET s_ns == get_namespace(s)
        o_ns == get_namespace(o)
    IN  IF p = RDF_type /\ s_ns # None /\ o_ns # None /\ s_ns # o_ns
        THEN <<<<s_ns, o_ns>>>> ELSE <<>>

\* Variant of the dependency-predicate rule that registers the predicate's
\* namespace instead of the object's
rule_dep_predicate_to_predicate(s, p, o) ==
    LET s_ns == get_namespace(s)
        o_ns == get_namespace(o)
    IN  IF p \in DEP_PREDICATES /\ s_ns # None /\ o_ns # None /\ s_ns # o_ns
        THEN <<<<s_ns, get_namespace(p)>>>> ELSE <<>>

rule_dep_predicate(s, p, o) ==
    LET s_ns == get_namespace(s)
        o_ns == get_namespace(o)
    IN  IF p \in DEP_PREDICATES /\ s_ns # None /\ o_ns # None /\ s_ns # o_ns
        THEN <<<<s_ns, o_ns>>>> ELSE <<>>

triple_references(s, p, o) ==
    rule_foreign_predicate(s, p, o) \o rule_foreign_type(s, p, o)
        \o rule_dep_predicate(s, p, o)

RECURSIVE register_all(_, _)
register_all(self, pairs) ==
    IF pairs = <<>> THEN self
    ELSE register_all(register_reference(self, Head(pairs)[1], Head(pairs)[2], 1),
                      Tail(pairs))

\* Variant of _process_dependencies_for_triple that registers each
\* (source, destination) pair of a triple once
process_dependencies_for_triple_dedup(self, s, p, o) ==
    LET pairs == triple_references(s, p, o)
        firsts == SelectSeq([i \in DOMAIN pairs |-> <<i, pairs[i]>>],
                            LAMBDA x : \A j \in 1..(x[1] - 1) : pairs[j] # x[2])
    IN  register_all(self, [i \in DOMAIN firsts |-> firsts[i][2]])

\* OntologyAnalyzer._process_dependencies_for_triple
process_dependencies_for_triple(self, s, p, o) ==
    register_all(self, triple_references(s, p, o))

\* Variant of the triple count that does not test the subject's namespace
count_triple_unresolved(self, file_str, s) ==
    LET s_ns == get_namespace(s)
    IN  IF IsURIRef(s)
        THEN bump(add_file(ensure_ns(self, s_ns), ensure_key(s_ns), file_str),
                  ensure_key(s_ns), "triples")
        ELSE self

\* process_rdf_graph, lines 141-148: file attribution and triple count
count_triple(self, file_str, s) ==
    LET s_ns == get_namespace(s)
    IN  IF IsURIRef(s) /\ s_ns # None
        THEN bump(add_file(ensure_ns(self, s_ns), ensure_key(s_ns), file_str),
                  ensure_key(s_ns), "triples")
        ELSE self

\* Variant of the classification that tests the property types first and
\* counts rdfs:Class among them
classify_triple_rdfs_class_property(self, s, p, o) ==
    LET s_ns == get_namespace(s)
    IN  IF p = RDF_type /\ IsURIRef(s) /\ IsURIRef(o) /\ s_ns # None
        THEN bump(ensure_ns(self, s_ns), ensure_key(s_ns),
                  IF o \in PROPERTY_TYPES \cup {RDFS_Class} THEN "properties"
                  ELSE IF o \in CLASS_TYPES THEN "classes"
                  ELSE "individuals")
        ELSE self

\* process_rdf_graph, lines 150-161: classification of an rdf:type triple
classify_triple(self, s, p, o) ==
    LET s_ns == get_namespace(s)
    IN  IF p = RDF_type /\ IsURIRef(s) /\ IsURIRef(o) /\ s_ns # None
        THEN bump(ensure_ns(self, s_ns), ensure_key(s_ns),
                  IF o \in CLASS_TYPES THEN "classes"
                  ELSE IF o \in PROPERTY_TYPES THEN "properties"
                  ELSE "individuals")
        ELSE self

\* process_rdf_graph, the body of "for s, p, o in g" (lines 140-164)
process_triple(self, file_str, t) ==
    process_dependencies_for_triple(
        classify_triple(count_triple(self, file_str, t[1]), t[1], t[2], t[3]),
        t[1], t[2], t[3])

\* g.subjects(RDF.type, OWL.Ontology) and g.objects(onto, OWL.imports)
subjects(g, p, o) == {t[1] : t \in {u \in g : u[2] = p /\ u[3] = o}}
objects(g, s, p) == {t[3] : t \in {u \in g : u[1] = s /\ u[2] = p}}

\* Variant of the owl:imports loop that does not _ensure_ns the imported namespace
RECURSIVE import_loop_no_ensure(_, _, _)
import_loop_no_ensure(self, onto_ns, imported) ==
    IF imported = {} THEN self
    ELSE LET imp == CHOOSE x \in imported : TRUE
             next == IF IsURIRef(imp)
                     THEN register_import(self, onto_ns, get_namespace(imp))
                     ELSE self
         IN  import_loop_no_ensure(next, onto_ns, imported \ {imp})

\* process_rdf_graph, lines 174-178: the owl:imports of one ontology
RECURSIVE import_loop(_, _, _)
import_loop(self, onto_ns, imported) ==
    IF imported = {} THEN self
    ELSE LET imp == CHOOSE x \in imported : TRUE
             imp_ns == get_namespace(imp)
             next == IF IsURIRef(imp)
                     THEN register_import(ensure_ns(self, imp_ns), onto_ns, imp_ns)
                     ELSE self
         IN  import_loop(next, onto_ns, imported \ {imp})

\* process_rdf_graph, lines 167-178: the declared ontologies of the graph
RECURSIVE ontology_loop(_, _, _, _)
ontology_loop(self, file_str, g, ontos) ==
    IF ontos = {} THEN self
    ELSE LET onto == CHOOSE x \in ontos : TRUE
             onto_ns == get_namespace(onto)
             next == IF ~IsURIRef(onto) THEN self
                     ELSE import_loop(
                              add_file(ensure_ns(self, onto_ns), ensure_key(onto_ns),
                                       file_str),
                              onto_ns, objects(g, onto, OWL_imports))
         IN  ontology_loop(next, file_str, g, ontos \ {onto})

process_imports(self, file_str, g) ==
    ontology_loop(self, file_str, g, subjects(g, RDF_type, OWL_Ontology))

(***************************************************************************)
(* XSD processing                                                          *)
(***************************************************************************)

\* Path.name: the last component of a path
PathName(path) == SplitLast(path, "/")

\* str(Path.parent) of a path given as str(Path): "." for a path without
\* directory part, "/" for a file of the root directory, "//" for a file of
\* the root of exactly two slashes that POSIX paths keep
PathParent(path) ==
    IF Positions(path, "/") = {} THEN <<".">>
    ELSE IF Max(Positions(path, "/")) = 1 THEN <<"/">>
    ELSE IF Max(Positions(path, "/")) = 2 /\ path[1] = "/" THEN <<"/", "/">>
    ELSE RSplitHead(path, "/")

file_scheme == <<"f", "i", "l", "e", ":", "/", "/">>

\* process_xsd, lines 213-218: the xs:import elements in document order
RECURSIVE xsd_import_loop(_, _, _)
xsd_import_loop(self, tns, elems) ==
    IF elems = <<>> THEN self
    ELSE LET ns == normalize_ns(Head(elems))
             next == IF ns # None THEN register_import(ensure_ns(self, ns), tns, ns)
                     ELSE self
         IN  xsd_import_loop(next, tns, Tail(elems))

\* process_xsd, lines 207-208: the schema's namespace
xsd_target_ns(file_path, root) ==
    IF normalize_ns(root.targetNamespace) # None
    THEN normalize_ns(root.targetNamespace)
    ELSE file_scheme \o PathName(file_path)

\* OntologyAnalyzer.process_xsd on a parsed schema
\* [targetNamespace |-> attribute or None, imports |-> namespace attributes]
process_xsd(self, file_path, root) ==
    LET tns == xsd_target_ns(file_path, root)
    IN  xsd_import_loop(add_file(ensure_ns(self, tns), ensure_key(tns), file_path),
                        tns, root.imports)

(***************************************************************************)
(* Descriptions                                                            *)
(***************************************************************************)

\* str(term)
Str(term) == term.val

\* "a or b or c" over lists: the first non-empty one
FirstNonEmpty(a, b, c) == IF a # {} THEN a ELSE IF b # {} THEN b ELSE c

\* the labels / descriptions attach_descriptions_from_graph reads for one ontology
onto_labels(g, onto) ==
    FirstNonEmpty(objects(g, onto, RDFS_label), objects(g, onto, DCTERMS_title),
                  objects(g, onto, DC_title))

onto_descs(g, onto) ==
    FirstNonEmpty(objects(g, onto, DCTERMS_description), objects(g, onto, RDFS_comment),
                  objects(g, onto, DC_description))

\* The declared ontologies of the merged graph that resolve to namespace key ns
ontos_of(g, ns) ==
    {onto \in subjects(g, RDF_type, OWL_Ontology) :
        IsURIRef(onto) /\ ensure_key(get_namespace(onto)) = ns}

\* The values attach_descriptions_from_graph may leave in stats.label of ns:
\* labels[0] of the first ontology of ns that has labels.  Graph iteration
\* order is not defined, so every label of every such ontology is possible.
label_choices(g, ns) ==
    LET cands == UNION {{Str(l) : l \in onto_labels(g, onto)} : onto \in ontos_of(g, ns)}
    IN  IF cands = {} THEN {None} ELSE cands

description_choices(g, ns) ==
    LET cands == UNION {{Str(l) : l \in onto_descs(g, onto)} : onto \in ontos_of(g, ns)}
    IN  IF cands = {} THEN {None} ELSE cands

\* every namespace of a declared ontology has an entry (line 227)
RECURSIVE ensure_all(_, _)
ensure_all(self, keys) ==
    IF keys = {} THEN self
    ELSE LET k == CHOOSE x \in keys : TRUE
         IN  ensure_all(ensure_ns(self, k), keys \ {k})

\* OntologyAnalyzer.attach_descriptions_from_graph; pick gives, per namespace,
\* the label and description the iteration order selects.
attach_descriptions_from_graph(self, merged_graph, pick) ==
    LET ensured ==
            ensure_all(self,
                {ensure_key(get_namespace(onto)) :
                    onto \in {x \in subjects(merged_graph, RDF_type, OWL_Ontology) :
                                 IsURIRef(x)}})
    IN  [ensured EXCEPT !.namespaces =
            [ns \in DOMAIN ensured.namespaces |->
                [ensured.namespaces[ns] EXCEPT
                    !.label = IF @ # None THEN @ ELSE pick[ns].label,
                    !.description = IF @ # None THEN @ ELSE pick[ns].description]]]

\* the picks the merged graph allows
Picks(self, merged_graph) ==
    LET keys == DOMAIN self.namespaces \cup
                {ensure_key(get_namespace(onto)) :
                    onto \in {x \in subjects(merged_graph, RDF_type, OWL_Ontology) :
                                 IsURIRef(x)}}
    IN  {pk \in [keys -> [label : UNION {label_choices(merged_graph, k) : k \in keys},
                          description :
                              UNION {description_choices(merged_graph, k) : k \in keys}]] :
            \A k \in keys :
                /\ pk[k].label \in label_choices(merged_graph, k)
                /\ pk[k].description \in description_choices(merged_graph, k)}

(***************************************************************************)
(* Finalization / export                                                   *)
(***************************************************************************)

ns_prefix == <<"n", "s">>

\* OntologyAnalyzer._make_short_id
make_short_id(ns, fallback_index) ==
    LET s == RStrip(ns, {"/", "#"})
        last == SplitLast(SplitLast(s, "/"), "#")
        short == ReplaceChar(ReplaceChar(LowerStr(last), "-", "_"), ".", "_")
    IN  IF s = <<>> THEN ns_prefix \o IntStr(fallback_index)
        ELSE IF short # <<>> THEN short
        ELSE ns_prefix \o IntStr(fallback_index)

\* _build_id_map, step 1: the declared prefixes, in the order namespaces() gives
RECURSIVE prefix_ids(_, _, _)
prefix_ids(self, id_map, prefixes) ==
    IF prefixes = <<>> THEN id_map
    ELSE LET prefix == Head(prefixes)[1]
             ns_str == normalize_ns(Head(prefixes)[2])
         IN  prefix_ids(self,
                 IF ns_str # None /\ ns_str \in DOMAIN self.namespaces
                        /\ ns_str \notin DOMAIN id_map
                 THEN Put(id_map, ns_str, prefix) ELSE id_map,
                 Tail(prefixes))

\* _build_id_map, step 2: derived identifiers for the rest, in sorted order
RECURSIVE fallback_ids(_, _, _)
fallback_ids(id_map, ns_list, counter) ==
    IF ns_list = <<>> THEN id_map
    ELSE IF Head(ns_list) \in DOMAIN id_map
         THEN fallback_ids(id_map, Tail(ns_list), counter)
    ELSE fallback_ids(Put(id_map, Head(ns_list), make_short_id(Head(ns_list), counter)),
                      Tail(ns_list), counter + 1)

\* OntologyAnalyzer._build_id_map
build_id_map(self, prefixes) ==
    fallback_ids(prefix_ids(self, EmptyMap, prefixes),
                 SortedStrs(DOMAIN self.namespaces), 1)

\* sum of f[x] over the finite set S
RECURSIVE SumOver(_, _)
SumOver(S, f) ==
    IF S = {} THEN 0
    ELSE LET x == CHOOSE y \in S : TRUE
         IN  f[x] + SumOver(S \ {x}, f)

\* the (source, destination) entries of the Reference Table / Import Table
reference_pairs(self) ==
    UNION {{<<src, dst>> : dst \in DOMAIN self.references[src]} :
              src \in DOMAIN self.references}

import_pairs(self) ==
    UNION {{<<src, dst>> : dst \in self.imports[src]} : src \in DOMAIN self.imports}

\* build_result_document, lines 279-284
incoming_of(self, ns) ==
    LET into == {pr \in reference_pairs(self) : pr[2] = ns}
    IN  SumOver(into, [pr \in into |-> self.references[pr[1]][pr[2]]])

\* Variant of the outgoing total that counts only destinations that have a node
outgoing_of_nodes_only(self, ns) ==
    LET targets == Get(self.references, ns, EmptyMap)
        kept == DOMAIN targets \cap DOMAIN self.namespaces
    IN  SumOver(kept, targets)

\* build_result_document, lines 286-289
outgoing_of(self, ns) ==
    LET targets == Get(self.references, ns, EmptyMap)
    IN  SumOver(DOMAIN targets, targets)

\* build_result_document, lines 291-310
node_of(self, id_map, ns) ==
    LET stats == self.namespaces[ns]
    IN  [id |-> id_map[ns],
         namespace |-> ns,
         label |-> IF stats.label # None THEN stats.label ELSE id_map[ns],
         description |-> stats.description,
         triples |-> stats.triples,
         classes |-> stats.classes,
         properties |-> stats.properties,
         individuals |-> stats.individuals,
         files |-> SortedStrs(stats.files),
         imports |-> SortedStrs(Get(self.imports, ns, {})),
         incoming_references |-> incoming_of(self, ns),
         outgoing_references |-> outgoing_of(self, ns)]

build_nodes(self, id_map) ==
    LET ns_list == SortedStrs(DOMAIN self.namespaces)
    IN  [i \in DOMAIN ns_list |-> node_of(self, id_map, ns_list[i])]

\* id_map.get(ns) followed by "if not id: continue"
has_id(id_map, ns) == ns \in DOMAIN id_map /\ id_map[ns] # None

\* build_result_document, lines 312-355: edge_map, keyed by (src_id, dst_id)
edge_key(id_map, pr) == <<id_map[pr[1]], id_map[pr[2]]>>

edge_refs(self, id_map) ==
    {pr \in reference_pairs(self) : has_id(id_map, pr[1]) /\ has_id(id_map, pr[2])}

edge_imports(self, id_map) ==
    {pr \in import_pairs(self) : has_id(id_map, pr[1]) /\ has_id(id_map, pr[2])}

build_edges(self, id_map) ==
    LET refs == edge_refs(self, id_map)
        imps == edge_imports(self, id_map)
        keys == {edge_key(id_map, pr) : pr \in refs \cup imps}
        w == [pr \in refs |-> self.references[pr[1]][pr[2]]]
    IN  {[source |-> k[1],
          target |-> k[2],
          reference_count |-> SumOver({pr \in refs : edge_key(id_map, pr) = k}, w),
          import |-> \E pr \in imps : edge_key(id_map, pr) = k] : k \in keys}

\* Variant of the descending sort that sorts ascending and reverses the list
RECURSIVE sorted_desc_reversed(_, _)
sorted_desc_reversed(nodes, key) ==
    IF nodes = <<>> THEN <<>>
    ELSE LET i == CHOOSE a \in DOMAIN nodes :
                      /\ \A b \in DOMAIN nodes : nodes[b][key] <= nodes[a][key]
                      /\ \A b \in (a + 1)..Len(nodes) : nodes[b][key] < nodes[a][key]
         IN  <<nodes[i]>> \o
             sorted_desc_reversed(SubSeq(nodes, 1, i - 1)
                                      \o SubSeq(nodes, i + 1, Len(nodes)), key)

\* sorted(nodes, key=..., reverse=True): stable, descending
RECURSIVE sorted_desc(_, _)
sorted_desc(nodes, key) ==
    IF nodes = <<>> THEN <<>>
    ELSE LET i == CHOOSE a \in DOMAIN nodes :
                      /\ \A b \in DOMAIN nodes : nodes[b][key] <= nodes[a][key]
                      /\ \A b \in 1..(a - 1) : nodes[b][key] < nodes[a][key]
         IN  <<nodes[i]>> \o
             sorted_desc(SubSeq(nodes, 1, i - 1) \o SubSeq(nodes, i + 1, Len(nodes)), key)

ranking_entry(n, key) ==
    [id |-> n.id, namespace |-> n.namespace, label |-> n.label, total |-> n[key]]

ranking(nodes, key) ==
    LET srt == sorted_desc(nodes, key)
    IN  [i \in DOMAIN srt |-> ranking_entry(srt[i], key)]

\* OntologyAnalyzer.build_result_document, after attach_descriptions_from_graph
\* (ontologies and graph.nodes are the same list)
build_result_document(self, prefixes) ==
    LET id_map == build_id_map(self, prefixes)
        nodes == build_nodes(self, id_map)
    IN  [ontologies |-> nodes,
         graph |-> [nodes |-> nodes, edges |-> build_edges(self, id_map)],
         ranking |-> [most_referenced |-> ranking(nodes, "incoming_references"),
                      largest_consumers |-> ranking(nodes, "outgoing_references")]]

(***************************************************************************)
(* Keyword filter                                                          *)
(***************************************************************************)

star_token == <<"*">>

StartsWith(p, c) == p # <<>> /\ Head(p) = c

\* matches_keywords, lines 401-412: the loop over the patterns
RECURSIVE parse_patterns(_, _)
parse_patterns(acc, patterns) ==
    IF patterns = <<>> THEN acc
    ELSE LET p == Head(patterns)
             next ==
                 IF p = star_token THEN [acc EXCEPT !.star = TRUE]
                 ELSE IF StartsWith(p, "+")
                      THEN [acc EXCEPT !.includes = @ \cup {Tail(p)}]
                 ELSE IF StartsWith(p, "-")
                      THEN [acc EXCEPT !.excludes = @ \cup {Tail(p)}]
                 ELSE [acc EXCEPT !.includes = @ \cup {p}]
         IN  parse_patterns(next, Tail(patterns))

\* Variant of matches_keywords in which "*" does not lift the include tokens
matches_keywords_star_keeps_includes(metadata, patterns) ==
    IF patterns = <<>> THEN TRUE
    ELSE LET kws == Get(metadata, "keywords", {})
             ps == parse_patterns([star |-> FALSE, includes |-> {}, excludes |-> {}],
                                  patterns)
         IN  /\ \A i \in ps.includes : i \in kws
             /\ ~(\E e \in kws : e \in ps.excludes)

\* matches_keywords; a metadata record is a dict that may hold "keywords"
matches_keywords(metadata, patterns) ==
    IF patterns = <<>> THEN TRUE
    ELSE LET kws == Get(metadata, "keywords", {})
             ps == parse_patterns([star |-> FALSE, includes |-> {}, excludes |-> {}],
                                  patterns)
         IN  IF ps.star THEN ~(\E e \in ps.excludes : e \in kws)
             ELSE /\ \A i \in ps.includes : i \in kws
                  /\ ~(\E e \in kws : e \in ps.excludes)

\* analyze_ontologies, lines 598-601: ok(node)
node_ok(node, metadata_by_ns, keywords) ==
    matches_keywords(Get(metadata_by_ns, node.namespace, EmptyMap), keywords)

\* Variant of the filter that keeps an edge when one of its ends survives
filter_document_either_end(result_doc, metadata_by_ns, keywords) ==
    LET ok(n) == matches_keywords(Get(metadata_by_ns, n.namespace, EmptyMap), keywords)
        filtered_nodes == SelectSeq(result_doc.graph.nodes, ok)
        keep_ids == {filtered_nodes[i].id : i \in DOMAIN filtered_nodes}
        filtered_edges == {e \in result_doc.graph.edges :
                              e.source \in keep_ids \/ e.target \in keep_ids}
    IN  [result_doc EXCEPT !.graph.nodes = filtered_nodes,
                           !.graph.edges = filtered_edges,
                           !.ontologies = filtered_nodes]

\* Variant of the filter that recomputes the reference totals of the
\* surviving nodes from the surviving edges
filter_document_recount(result_doc, metadata_by_ns, keywords) ==
    LET ok(n) == node_ok(n, metadata_by_ns, keywords)
        filtered_nodes == SelectSeq(result_doc.graph.nodes, ok)
        keep_ids == {filtered_nodes[i].id : i \in DOMAIN filtered_nodes}
        filtered_edges == {e \in result_doc.graph.edges :
                              e.source \in keep_ids /\ e.target \in keep_ids}
        count(E) == SumOver(E, [e \in E |-> e.reference_count])
        recounted ==
            [i \in DOMAIN filtered_nodes |->
                [filtered_nodes[i] EXCEPT
                    !.incoming_references =
                        count({e \in filtered_edges : e.target = filtered_nodes[i].id}),
                    !.outgoing_references =
                        count({e \in filtered_edges : e.source = filtered_nodes[i].id})]]
    IN  [result_doc EXCEPT !.graph.nodes = recounted,
                           !.graph.edges = filtered_edges,
                           !.ontologies = recounted]

\* analyze_ontologies, lines 603-614: the filtered document
filter_document(result_doc, metadata_by_ns, keywords) ==
    LET ok(n) == node_ok(n, metadata_by_ns, keywords)
        filtered_nodes == SelectSeq(result_doc.graph.nodes, ok)
        keep_ids == {filtered_nodes[i].id : i \in DOMAIN filtered_nodes}
        filtered_edges == {e \in result_doc.graph.edges :
                              e.source \in keep_ids /\ e.target \in keep_ids}
    IN  [result_doc EXCEPT !.graph.nodes = filtered_nodes,
                           !.graph.edges = filtered_edges,
                           !.ontologies = filtered_nodes]

(***************************************************************************)
(* The corpus the model draws its inputs from                              *)
(***************************************************************************)

\* Bound: the number of triples of the whole corpus
MaxTriples == 3

\* Namespaces of the corpus, as written in the files
A_RAW == <<"h", "t", "t", "p", ":", "/", "/", "a", ".", "o", "r", "g", "/">>
B_RAW == <<"h", "t", "t", "p", ":", "/", "/", "b", ".", "o", "r", "g", "/">>

\* Ontology resources: split_uri cuts before "onto", so they resolve to
\* http://a.org and http://b.org
OA == URIRef(A_RAW \o <<"o", "n", "t", "o">>)
OB == URIRef(B_RAW \o <<"o", "n", "t", "o">>)
\* Slash terms of the same two namespaces
CA == URIRef(A_RAW \o <<"T", "h", "i", "n", "g">>)
CB == URIRef(B_RAW \o <<"T", "h", "i", "n", "g">>)
\* Hash terms: they resolve to http://a.org/onto and http://b.org/onto
HA == URIRef(A_RAW \o <<"o", "n", "t", "o", "#", "T", "h", "i", "n", "g">>)
HB == URIRef(B_RAW \o <<"o", "n", "t", "o", "#", "T", "h", "i", "n", "g">>)
\* A URI without "/" or "#": no namespace
UX == URIRef(<<"x">>)
\* A URI whose only stop character is ":": it splits into "urn:" and "x"
UrnX == URIRef(<<"u", "r", "n", ":", "x">>)
\* A term of the XML namespace
XmlLang == URIRef(XMLNS \o <<"#", "l", "a", "n", "g">>)
B1 == BNode(<<"b", "1">>)
LitA == Literal(<<"A">>)

NA == get_namespace(CA)
NB == get_namespace(CB)
NHA == get_namespace(HA)
NHB == get_namespace(HB)

\* The triples a parsed RDF file may hold
TriplePool ==
    {<<OA, RDF_type, OWL_Ontology>>,
     <<OA, OWL_imports, OB>>,
     <<OA, OWL_imports, CA>>,
     <<OA, RDFS_label, LitA>>,
     <<CA, RDFS_subClassOf, CB>>,
     <<CA, RDF_type, RDF_Property>>,
     <<CB, RDF_type, CA>>,
     <<HA, RDF_type, OWL_Class>>,
     <<HB, RDFS_subClassOf, HA>>,
     <<B1, RDF_type, OWL_Class>>,
     <<UX, RDF_type, OWL_Ontology>>,
     <<RDF_Property, RDF_type, RDFS_Class>>}

\* The parsed schemas an XSD file may hold; xsd_unparsed is ET.parse failing
xsd_unparsed == [targetNamespace |-> None, imports |-> <<>>, parsed |-> FALSE]

XsdRoots ==
    {xsd_unparsed,
     [targetNamespace |-> None, imports |-> <<>>, parsed |-> TRUE],
     [targetNamespace |-> A_RAW, imports |-> <<B_RAW, NB, None>>, parsed |-> TRUE],
     [targetNamespace |-> NB, imports |-> <<B_RAW>>, parsed |-> TRUE]}

\* sorted(_iter_files(input_dir)): two directories; a Turtle file, a schema
\* and a file without suffix, which holds triples or a schema
FileA == <<"d", "/", "a", ".", "t", "t", "l">>
FileB == <<"d", "/", "b", ".", "x", "s", "d">>
FileC == <<"e", "/", "c">>
Files == <<FileA, FileB, FileC>>

xsd_suffix == <<".", "x", "s", "d">>

\* Path.suffix: from the last "." of the name, unless the name has none or
\* the "." is its first or its last character
PathSuffix(path) ==
    LET name == PathName(path)
        dots == Positions(name, ".")
    IN  IF dots = {} \/ Max(dots) = 1 \/ Max(dots) = Len(name) THEN <<>>
        ELSE SubSeq(name, Max(dots), Len(name))

\* \s and \w of the re module, over the characters of the model's texts
Whitespace == {" ", "\t", "\n", "\r", "\f"}
IsWordChar(c) == IsNameChar(c) \/ c = "_"

schema_word == <<"s", "c", "h", "e", "m", "a">>

\* "http://www.w3.org/2001/XMLSchema" with its quotes, in lower case
xmlschema_quoted ==
    <<"\"", "h", "t", "t", "p", ":", "/", "/", "w", "w", "w", ".", "w", "3",
      ".", "o", "r", "g", "/", "2", "0", "0", "1", "/", "x", "m", "l", "s",
      "c", "h", "e", "m", "a", "\"">>

\* xsd_schema_pattern.search(text), case-insensitive: a "<", then up to the
\* first ">" after it no ">"; just before that ">", whitespace aside, the
\* quoted XMLSchema namespace; and between the "<" and the quote the word
\* "schema", followed by a character that is not a word character
xsd_schema_search(text) ==
    LET low == LowerStr(text)
    IN  \E i \in Positions(text, "<") :
            \E e \in {k \in (i + 1)..Len(text) : text[k] = ">"} :
                /\ \A k \in (i + 1)..(e - 1) : text[k] # ">"
                /\ LET r == Len(RStrip(SubSeq(text, 1, e - 1), Whitespace))
                       q == r - Len(xmlschema_quoted) + 1
                   IN  /\ q > i
                       /\ SubSeq(low, q, r) = xmlschema_quoted
                       /\ \E j \in (i + 1)..(q - 6) :
                              /\ SubSeq(low, j, j + 5) = schema_word
                              /\ ~IsWordChar(text[j + 6])

\* f.read(1024)
first_kb(content) ==
    SubSeq(content, 1, IF Len(content) < 1024 THEN Len(content) ELSE 1024)

\* _looks_like_xsd, on the path and the text of the file; a file that
\* cannot be read has the empty text, which gives False as the except branch
looks_like_xsd(path, content) ==
    IF LowerStr(PathSuffix(path)) = xsd_suffix THEN TRUE
    ELSE IF PathSuffix(path) = <<>> THEN xsd_schema_search(first_kb(content))
    ELSE FALSE

\* The texts a file of the corpus may start with: a schema element and a
\* Turtle prefix declaration
XsdText ==
    <<"<", "x", "s", ":", "s", "c", "h", "e", "m", "a", " ", "t", "a", "r",
      "g", "e", "t", "N", "a", "m", "e", "s", "p", "a", "c", "e", "=", "\"",
      "h", "t", "t", "p", ":", "/", "/", "a", ".", "o", "r", "g", "/", "\"",
      "\n", " ", "x", "m", "l", "n", "s", ":", "x", "s", "=", "\"", "h", "t",
      "t", "p", ":", "/", "/", "w", "w", "w", ".", "w", "3", ".", "o", "r",
      "g", "/", "2", "0", "0", "1", "/", "X", "M", "L", "S", "c", "h", "e",
      "m", "a", "\"", ">">>

TurtleText ==
    <<"@", "p", "r", "e", "f", "i", "x", " ", "o", "w", "l", ":", " ", "<",
      "h", "t", "t", "p", ":", "/", "/", "w", "w", "w", ".", "w", "3", ".",
      "o", "r", "g", "/", "2", "0", "0", "2", "/", "0", "7", "/", "o", "w",
      "l", "#", ">", " ", ".">>

FileTexts == {XsdText, TurtleText}

kw_deprecated == <<"d", "e", "p", "r", "e", "c", "a", "t", "e", "d">>
kw_energy == <<"e", "n", "e", "r", "g", "y">>

\* What _load_metadata_for_file gives for a directory: EmptyMap stands for a
\* missing, unreadable or empty metadata.yaml (all falsy, none is recorded)
MetadataChoices ==
    {EmptyMap, [keywords |-> {kw_deprecated}], [keywords |-> {kw_energy}]}

\* The --keywords option
KeywordLists ==
    {<<>>, <<star_token, <<"-">> \o kw_deprecated>>}

\* merged_graph.namespace_manager.namespaces(): merged_graph is a fresh Graph()
\* that only receives triples ("merged_graph += g"), so it holds the bindings
\* every rdflib Graph starts with; those of namespaces of the corpus are
DefaultPrefixes ==
    <<<<<<"o", "w", "l">>, OWL_NS>>,
      <<<<"r", "d", "f">>, RDF_NS>>,
      <<<<"r", "d", "f", "s">>, RDFS_NS>>>>

(***************************************************************************)
(* analyze_ontologies as a state machine                                   *)
(***************************************************************************)

VARIABLES
    pc,                \* "files" | "rdf" | "built" | "done"
    todo,              \* the files still to process, in order
    cur,               \* the RDF file whose triples are being visited
    corpus,            \* file -> what was read from it (graph visited so far / schema)
    namespaces,        \* analyzer.namespaces
    references,        \* analyzer.references
    imports,           \* analyzer.imports
    metadata_by_ns,    \* metadata_by_ns of analyze_ontologies
    id_map,            \* the ID Map of the last build
    result_doc,        \* result_doc of analyze_ontologies
    keywords,          \* the keywords argument of analyze_ontologies
    kw_pc,             \* "call" | "return": a direct call of matches_keywords
    kw_metadata,       \* its metadata argument
    kw_patterns,       \* its patterns argument
    kw_result          \* its return value

kw_vars == <<kw_pc, kw_metadata, kw_patterns, kw_result>>

vars == <<pc, todo, cur, corpus, namespaces, references, imports,
          metadata_by_ns, id_map, result_doc, keywords, kw_vars>>

Analyzer == [namespaces |-> namespaces, references |-> references, imports |-> imports]

SetAnalyzer(a) ==
    /\ namespaces' = a.namespaces
    /\ references' = a.references
    /\ imports' = a.imports

EmptyDoc ==
    [ontologies |-> <<>>, graph |-> [nodes |-> <<>>, edges |-> {}],
     ranking |-> [most_referenced |-> <<>>, largest_consumers |-> <<>>]]

rdf_files == {f \in DOMAIN corpus : corpus[f].kind = "rdf"}

\* the number of triples read so far
RECURSIVE CountTriples(_)
CountTriples(fs) ==
    IF fs = {} THEN 0
    ELSE LET f == CHOOSE x \in fs : TRUE
         IN  Cardinality(corpus[f].graph) + CountTriples(fs \ {f})

\* merged_graph: the union of the graphs parsed
merged_graph == UNION {corpus[f].graph : f \in rdf_files}

InitPipeline ==
    /\ pc = "files"
    /\ todo = Files
    /\ cur = None
    /\ corpus = EmptyMap
    /\ namespaces = NewAnalyzer.namespaces
    /\ references = NewAnalyzer.references
    /\ imports = NewAnalyzer.imports
    /\ metadata_by_ns = EmptyMap
    /\ id_map = EmptyMap
    /\ result_doc = EmptyDoc
    /\ keywords = <<>>

Init ==
    /\ InitPipeline
    /\ kw_pc = "return"
    /\ kw_metadata = EmptyMap
    /\ kw_patterns = <<>>
    /\ kw_result = TRUE

\* analyze_ontologies, lines 576-578: a schema file
ProcessXsdFile ==
    /\ pc = "files" /\ todo # <<>>
    /\ \E content \in FileTexts : looks_like_xsd(Head(todo), content)
    /\ \E root \in XsdRoots :
        /\ corpus' = Put(corpus, Head(todo), [kind |-> "xsd", root |-> root])
        /\ SetAnalyzer(IF root.parsed THEN process_xsd(Analyzer, Head(todo), root)
                       ELSE Analyzer)
    /\ todo' = Tail(todo)
    /\ UNCHANGED <<pc, cur, metadata_by_ns, id_map, result_doc, keywords, kw_vars>>

\* analyze_ontologies, lines 580-582: an RDF file is parsed; process_rdf_graph
\* starts on its graph
BeginRdfFile ==
    /\ pc = "files" /\ todo # <<>>
    /\ \E content \in FileTexts : ~looks_like_xsd(Head(todo), content)
    /\ cur' = Head(todo)
    /\ corpus' = Put(corpus, Head(todo), [kind |-> "rdf", graph |-> {}])
    /\ todo' = Tail(todo)
    /\ pc' = "rdf"
    /\ UNCHANGED <<namespaces, references, imports, metadata_by_ns, id_map, result_doc,
                   keywords, kw_vars>>

\* process_rdf_graph: one iteration of "for s, p, o in g"
RdfTriple ==
    /\ pc = "rdf"
    /\ CountTriples(rdf_files) < MaxTriples
    /\ \E t \in TriplePool \ corpus[cur].graph :
        /\ corpus' = [corpus EXCEPT ![cur].graph = @ \cup {t}]
        /\ SetAnalyzer(process_triple(Analyzer, cur, t))
    /\ UNCHANGED <<pc, todo, cur, metadata_by_ns, id_map, result_doc, keywords, kw_vars>>

\* process_rdf_graph: the triples are exhausted, the owl:imports loop runs
RdfImports ==
    /\ pc = "rdf"
    /\ SetAnalyzer(process_imports(Analyzer, cur, corpus[cur].graph))
    /\ pc' = "files"
    /\ cur' = None
    /\ UNCHANGED <<todo, corpus, metadata_by_ns, id_map, result_doc, keywords, kw_vars>>

\* The metadata.yaml files of the input directory, as metadata_by_file: files
\* of one directory share one metadata.yaml
MetadataByFile ==
    LET dirs == {PathParent(Files[i]) : i \in DOMAIN Files}
    IN  {[f \in {x \in Range(Files) : by_dir[PathParent(x)] # EmptyMap} |->
             by_dir[PathParent(f)]] : by_dir \in [dirs -> MetadataChoices]}

\* analyze_ontologies, lines 584-590: the first file of the namespace that
\* has metadata decides; stats.files is a set, so any such file can be first
MetadataByNs(self, by_file) ==
    LET with_meta(ns) == self.namespaces[ns].files \cap DOMAIN by_file
        keys == {ns \in DOMAIN self.namespaces : with_meta(ns) # {}}
    IN  {m \in [keys -> Range(by_file)] :
            \A ns \in keys : \E f \in with_meta(ns) : m[ns] = by_file[f]}

\* analyze_ontologies, line 592: build_result_document
Build ==
    /\ pc = "files" /\ todo = <<>>
    /\ \E pick \in Picks(Analyzer, merged_graph) :
        LET a == attach_descriptions_from_graph(Analyzer, merged_graph, pick)
        IN  /\ SetAnalyzer(a)
            /\ id_map' = build_id_map(a, DefaultPrefixes)
            /\ result_doc' = build_result_document(a, DefaultPrefixes)
    /\ pc' = "built"
    /\ UNCHANGED <<todo, cur, corpus, metadata_by_ns, keywords, kw_vars>>

\* analyze_ontologies, lines 584-590 and 594-614: the metadata read beside the
\* files is mapped to the namespaces and the keyword filter is applied.  The
\* mapping reads stats.files only, which build_result_document leaves alone,
\* so it is taken here, where its result is first used.
Filter ==
    /\ pc = "built"
    /\ \E by_file \in MetadataByFile :
        metadata_by_ns' \in MetadataByNs(Analyzer, by_file)
    /\ \E kw \in KeywordLists :
        /\ keywords' = kw
        /\ result_doc' = IF kw # <<>> THEN filter_document(result_doc, metadata_by_ns', kw)
                         ELSE result_doc
    /\ pc' = "done"
    /\ UNCHANGED <<todo, cur, corpus, namespaces, references, imports, id_map, kw_vars>>

Next ==
    \/ ProcessXsdFile
    \/ BeginRdfFile
    \/ RdfTriple
    \/ RdfImports
    \/ Build
    \/ Filter

Spec == Init /\ [][Next]_vars

(***************************************************************************)
(* matches_keywords called on its own                                      *)
(***************************************************************************)

\* Bound: the length of a pattern list
MaxPatterns == 2

\* The tokens of a pattern list
PatternTokens ==
    {star_token,
     kw_energy, <<"+">> \o kw_energy, <<"-">> \o kw_energy,
     kw_deprecated, <<"+">> \o kw_deprecated, <<"-">> \o kw_deprecated}

PatternLists == UNION {[1..n -> PatternTokens] : n \in 0..MaxPatterns}

\* The metadata records: no record, no keywords, and keyword sets
MetadataRecords ==
    {EmptyMap} \cup {[keywords |-> kws] : kws \in SUBSET {kw_energy, kw_deprecated}}

InitKw ==
    /\ InitPipeline
    /\ kw_pc = "call"
    /\ kw_metadata \in MetadataRecords
    /\ kw_patterns \in PatternLists
    /\ kw_result = FALSE

CallMatchesKeywords ==
    /\ kw_pc = "call"
    /\ kw_result' = matches_keywords(kw_metadata, kw_patterns)
    /\ kw_pc' = "return"
    /\ UNCHANGED <<pc, todo, cur, corpus, namespaces, references, imports,
                   metadata_by_ns, id_map, result_doc, keywords, kw_metadata, kw_patterns>>

NextKw == CallMatchesKeywords

SpecKw == InitKw /\ [][NextKw]_vars

(***************************************************************************)
(* process_rdf_graph on a graph of arbitrary terms                         *)
(***************************************************************************)

\* Bound: the number of triples of the graph
MaxGraph == 2

\* The terms a triple of a parsed graph may hold in its three positions:
\* a slash URI and a colon URI of two namespaces, a URI without namespace
\* structure, a blank node and a literal; rdf:type, a dependency predicate
\* and a predicate of the corpus' own namespace; class types, property types
\* and other objects
SubjectTerms == {CA, UrnX, UX, B1, LitA}
PredicateTerms == {RDF_type, RDFS_subClassOf, CA}
ObjectTerms ==
    {OWL_Class, RDFS_Class, RDF_Property, OWL_DatatypeProperty, CB, HA, XmlLang, LitA}

TermTriples == SubjectTerms \X PredicateTerms \X ObjectTerms

\* process_rdf_graph(FileA, g) has been entered on a fresh analyzer
InitTriples ==
    /\ pc = "rdf"
    /\ todo = <<>>
    /\ cur = FileA
    /\ corpus = Put(EmptyMap, FileA, [kind |-> "rdf", graph |-> {}])
    /\ namespaces = NewAnalyzer.namespaces
    /\ references = NewAnalyzer.references
    /\ imports = NewAnalyzer.imports
    /\ metadata_by_ns = EmptyMap
    /\ id_map = EmptyMap
    /\ result_doc = EmptyDoc
    /\ keywords = <<>>
    /\ kw_pc = "return"
    /\ kw_metadata = EmptyMap
    /\ kw_patterns = <<>>
    /\ kw_result = TRUE

\* process_rdf_graph: one iteration of "for s, p, o in g", on any triple
VisitTriple ==
    /\ pc = "rdf"
    /\ Cardinality(corpus[cur].graph) < MaxGraph
    /\ \E t \in TermTriples \ corpus[cur].graph :
        /\ corpus' = [corpus EXCEPT ![cur].graph = @ \cup {t}]
        /\ SetAnalyzer(process_triple(Analyzer, cur, t))
    /\ UNCHANGED <<pc, todo, cur, metadata_by_ns, id_map, result_doc, keywords, kw_vars>>

NextTriples == VisitTriple

SpecTriples == InitTriples /\ [][NextTriples]_vars

(***************************************************************************)
(* Properties                                                              *)
(***************************************************************************)

DocNodes == result_doc.graph.nodes
DocEdges == result_doc.graph.edges

\* the sum of reference_count over a set of edges
EdgeSum(E) == SumOver(E, [e \in E |-> e.reference_count])

NodesWithId(id) == {n \in Range(DocNodes) : n.id = id}
NodesOfNs(ns) == {i \in DOMAIN DocNodes : DocNodes[i].namespace = ns}

\* the weight of the Reference Table from src to dst, 0 when there is no entry
Weight(src, dst) == Get(Get(references, src, EmptyMap), dst, 0)

RefSources == DOMAIN references
RefTargets == UNION {DOMAIN references[src] : src \in DOMAIN references}
ImportSources == DOMAIN imports
ImportTargets == UNION {imports[src] : src \in DOMAIN imports}

\* ---------------------------------------------------------------- C1
\* C1 as stated: in the built document every node's incoming_references is
\* the sum of reference_count over the edges whose target is the node's id,
\* and its outgoing_references the sum over the edges whose source is its id.
C1_TotalsAreEdgeSums ==
    pc = "built" =>
        \A n \in Range(DocNodes) :
            /\ n.incoming_references = EdgeSum({e \in DocEdges : e.target = n.id})
            /\ n.outgoing_references = EdgeSum({e \in DocEdges : e.source = n.id})

\* C1 amended: every node's incoming_references (outgoing_references) is the
\* sum of the Reference Table weights of the entries whose destination
\* (source) is the node's namespace.  The edges carry only the entries whose
\* two namespaces have a node, merged per pair of ids: per id, the incoming
\* totals of the nodes with that id add up to the edges targeting it, and
\* their outgoing totals to the edges sourced at it plus the weights towards
\* namespaces that have no node.
C1_TotalsAreReferenceTableSums ==
    pc = "built" =>
        /\ \A n \in Range(DocNodes) :
            /\ n.incoming_references =
                   SumOver(RefSources, [src \in RefSources |-> Weight(src, n.namespace)])
            /\ n.outgoing_references =
                   SumOver(RefTargets, [dst \in RefTargets |-> Weight(n.namespace, dst)])
        /\ \A id \in {n.id : n \in Range(DocNodes)} :
            LET group == NodesWithId(id)
                lost == {pr \in RefSources \X RefTargets :
                            /\ pr[1] \in {n.namespace : n \in group}
                            /\ pr[2] \notin DOMAIN namespaces}
            IN  /\ SumOver(group, [n \in group |-> n.incoming_references])
                       = EdgeSum({e \in DocEdges : e.target = id})
                /\ SumOver(group, [n \in group |-> n.outgoing_references])
                       = EdgeSum({e \in DocEdges : e.source = id})
                         + SumOver(lost, [pr \in lost |-> Weight(pr[1], pr[2])])

\* C1 witness: a built document with a node that is referenced and a node
\* whose outgoing total exceeds the edges sourced at its id.
C1_Witness ==
    /\ pc = "built"
    /\ \E n \in Range(DocNodes) : n.incoming_references > 0
    /\ \E n \in Range(DocNodes) :
           n.outgoing_references > EdgeSum({e \in DocEdges : e.source = n.id})
    /\ DocEdges # {}

\* ---------------------------------------------------------------- C2
\* the (file, triple, rule) occurrences of the corpus that satisfied one of the
\* three cross-namespace rules, each with the pair it registered
RuleHits ==
    UNION {UNION {{<<f, t, k, triple_references(t[1], t[2], t[3])[k]>> :
                      k \in DOMAIN triple_references(t[1], t[2], t[3])} :
                  t \in corpus[f].graph} : f \in rdf_files}

\* the import declarations of the corpus between two different namespaces
RdfImportDecls ==
    UNION {{<<f, onto, imp>> :
               onto \in {x \in subjects(corpus[f].graph, RDF_type, OWL_Ontology) :
                            IsURIRef(x)},
               imp \in {x[3] : x \in {u \in corpus[f].graph : u[2] = OWL_imports}}} :
           f \in rdf_files}

RegisteredRdfImports ==
    {d \in RdfImportDecls :
        /\ <<d[2], OWL_imports, d[3]>> \in corpus[d[1]].graph
        /\ IsURIRef(d[3])
        /\ get_namespace(d[2]) # None /\ get_namespace(d[3]) # None
        /\ get_namespace(d[2]) # get_namespace(d[3])}

RegisteredXsdImports ==
    UNION {{<<f, k>> : k \in {j \in DOMAIN corpus[f].root.imports :
                                /\ corpus[f].root.parsed
                                /\ normalize_ns(corpus[f].root.imports[j]) # None
                                /\ normalize_ns(corpus[f].root.imports[j])
                                       # normalize_ns(xsd_target_ns(f, corpus[f].root))}} :
           f \in DOMAIN corpus \ rdf_files}

\* C2 as stated: the sum of reference_count over the edges of the built
\* document is the number of (triple, rule) pairs of the corpus that satisfied
\* one of the three cross-namespace rules.
C2_EdgeSumIsRuleHits ==
    pc = "built" => EdgeSum(DocEdges) = Cardinality(RuleHits)

\* C2 amended: the sum of reference_count over the edges is the number of
\* (triple, rule) pairs whose destination namespace has a node, plus the
\* number of import declarations (owl:imports objects of declared ontologies,
\* xs:import elements) registered between two different namespaces.
C2_EdgeSumIsHitsToNodesPlusImports ==
    pc = "built" =>
        EdgeSum(DocEdges) =
            Cardinality({h \in RuleHits : h[4][2] \in DOMAIN namespaces})
            + Cardinality(RegisteredRdfImports) + Cardinality(RegisteredXsdImports)

\* C2 witness: a built document whose edges count rule hits and an import,
\* from a corpus with a rule hit towards a namespace that has no node.
C2_Witness ==
    /\ pc = "built"
    /\ \E h \in RuleHits : h[4][2] \in DOMAIN namespaces
    /\ \E h \in RuleHits : h[4][2] \notin DOMAIN namespaces
    /\ RegisteredRdfImports \cup RegisteredXsdImports # {}

\* ---------------------------------------------------------------- C3
\* C3 as stated: every namespace that is a key or a value of the Reference
\* Table or of the Import Table, and every namespace with a Statistics entry,
\* has exactly one node in the built document.
C3_EveryTableNamespaceHasOneNode ==
    pc = "built" =>
        \A ns \in RefSources \cup RefTargets \cup ImportSources \cup ImportTargets
                  \cup DOMAIN namespaces :
            Cardinality(NodesOfNs(ns)) = 1

\* C3 amended: every namespace that is a key of the Reference Table, a key or
\* a value of the Import Table, or has a Statistics entry, has exactly one
\* node, and no namespace appears twice in the node list; a namespace that is
\* only a destination in the Reference Table has no node.
C3_RecordedNamespacesHaveOneNode ==
    pc = "built" =>
        /\ \A ns \in RefSources \cup ImportSources \cup ImportTargets
                     \cup DOMAIN namespaces :
               Cardinality(NodesOfNs(ns)) = 1
        /\ \A i, j \in DOMAIN DocNodes :
               DocNodes[i].namespace = DocNodes[j].namespace => i = j
        /\ \A ns \in RefTargets \ DOMAIN namespaces : NodesOfNs(ns) = {}

\* C3 witness: a built document of a corpus with an import and with a
\* reference towards a namespace that has no Statistics entry.
C3_Witness ==
    /\ pc = "built"
    /\ ImportTargets # {}
    /\ RefTargets \ DOMAIN namespaces # {}

\* ---------------------------------------------------------------- C4
\* C4 as stated: the ID Map gives every observed namespace an identifier and
\* no two distinct namespaces the same identifier.
C4_IdMapIsBijection ==
    pc = "built" =>
        /\ DOMAIN id_map = DOMAIN namespaces
        /\ \A a, b \in DOMAIN id_map : a # b => id_map[a] # id_map[b]

\* ---------------------------------------------------------------- C5
\* C5: for every (source, destination) pair of the Import Table the built
\* document has an edge from the source's id to the destination's id with
\* reference_count >= 1 and import = true.
C5_ImportsAreEdges ==
    pc = "built" =>
        \A src \in ImportSources : \A dst \in imports[src] :
            /\ src \in DOMAIN id_map /\ dst \in DOMAIN id_map
            /\ \E e \in DocEdges :
                /\ e.source = id_map[src] /\ e.target = id_map[dst]
                /\ e.reference_count >= 1
                /\ e.import = TRUE

\* C5 witness: a built document of a corpus with an RDF import and an XSD import
C5_Witness ==
    /\ pc = "built"
    /\ RegisteredRdfImports # {}
    /\ RegisteredXsdImports # {}

\* ---------------------------------------------------------------- C6
\* C6: in every state the Reference Table has no entry from a namespace to
\* itself and the Import Table has no namespace importing itself.
C6_NoSelfLoops ==
    /\ \A src \in RefSources : src \notin DOMAIN references[src]
    /\ \A src \in ImportSources : src \notin imports[src]

\* C6 witness: the corpus processed so far holds an owl:imports of a resource of
\* the ontology's own namespace and a schema importing its own namespace.
C6_Witness ==
    /\ pc = "files" /\ todo = <<>>
    /\ \E f \in rdf_files :
           {<<OA, RDF_type, OWL_Ontology>>, <<OA, OWL_imports, CA>>} \subseteq corpus[f].graph
    /\ \E f \in DOMAIN corpus \ rdf_files :
           /\ corpus[f].root.parsed
           /\ \E k \in DOMAIN corpus[f].root.imports :
                  normalize_ns(corpus[f].root.imports[k])
                      = xsd_target_ns(f, corpus[f].root)

\* ---------------------------------------------------------------- C7
\* The corpus of the scenario: A declares itself an ontology and imports B in
\* one file, a class of A is a subclass of a class of B, and nothing else.
ScenarioTwoOntologies ==
    /\ merged_graph = {<<OA, RDF_type, OWL_Ontology>>, <<OA, OWL_imports, OB>>,
                       <<CA, RDFS_subClassOf, CB>>}
    /\ CountTriples(rdf_files) = 3
    /\ \E f \in rdf_files :
           {<<OA, RDF_type, OWL_Ontology>>, <<OA, OWL_imports, OB>>} \subseteq corpus[f].graph
    /\ \A f \in DOMAIN corpus \ rdf_files : ~corpus[f].root.parsed

\* C7: for that corpus the built document has one node for A, one node for B
\* and exactly one edge from A to B, with reference_count = 2 and import = true.
C7_TwoOntologiesScenario ==
    (pc = "built" /\ ScenarioTwoOntologies) =>
        /\ Len(DocNodes) = 2
        /\ Cardinality(NodesOfNs(NA)) = 1
        /\ Cardinality(NodesOfNs(NB)) = 1
        /\ {e \in DocEdges : e.source = id_map[NA] /\ e.target = id_map[NB]}
               = {[source |-> id_map[NA], target |-> id_map[NB],
                   reference_count |-> 2, import |-> TRUE]}

C7_Witness == pc = "built" /\ ScenarioTwoOntologies

\* ---------------------------------------------------------------- C8
\* the document before keyword filtering
Unfiltered == build_result_document(Analyzer, DefaultPrefixes)

\* C8: after keyword filtering every surviving edge's source and target are
\* ids of surviving nodes.
C8_NoDanglingEdges ==
    (pc = "done" /\ keywords # <<>>) =>
        \A e \in DocEdges :
            /\ \E n \in Range(DocNodes) : n.id = e.source
            /\ \E n \in Range(DocNodes) : n.id = e.target

\* C8 witness: a filtered document in which a node and an edge were pruned
\* and an edge survives.
C8_Witness ==
    /\ pc = "done" /\ keywords # <<>>
    /\ Len(DocNodes) < Len(Unfiltered.graph.nodes)
    /\ DocEdges # {}
    /\ DocEdges # Unfiltered.graph.edges

\* ---------------------------------------------------------------- C9
exclude_deprecated == <<star_token, <<"-">> \o kw_deprecated>>

IsDeprecated(ns) == kw_deprecated \in Get(Get(metadata_by_ns, ns, EmptyMap), "keywords", {})

\* C9 as stated: under ["*", "-deprecated"] a namespace whose keywords hold
\* "deprecated" has no node and no edge from or to it in the filtered
\* document, and every other namespace has its node.
C9_DeprecatedPruned ==
    (pc = "done" /\ keywords = exclude_deprecated) =>
        \A ns \in DOMAIN namespaces :
            IF IsDeprecated(ns)
            THEN /\ NodesOfNs(ns) = {}
                 /\ \A e \in DocEdges : e.source # id_map[ns] /\ e.target # id_map[ns]
            ELSE Cardinality(NodesOfNs(ns)) = 1

\* ---------------------------------------------------------------- C10
KwTokens == Range(kw_patterns)
KwSet == Get(kw_metadata, "keywords", {})
MinusTokens == {Tail(p) : p \in {q \in KwTokens : q # <<>> /\ Head(q) = "-"}}
PlusTokens == {Tail(p) : p \in {q \in KwTokens : q # <<>> /\ Head(q) = "+"}}
LiteralTokens == {q \in KwTokens : q # star_token /\ (q = <<>> \/ Head(q) \notin {"+", "-"})}

\* C10: matches_keywords returns true exactly when the pattern list is empty,
\* or it holds a bare "*" and no "-token" token is a keyword, or it holds no
\* "*", every literal and "+token" token is a keyword and no "-token" token
\* is; a record without keywords has the empty keyword set.
C10_MatchesKeywords ==
    kw_pc = "return" =>
        kw_result =
            (\/ kw_patterns = <<>>
             \/ star_token \in KwTokens /\ MinusTokens \cap KwSet = {}
             \/ /\ star_token \notin KwTokens
                /\ LiteralTokens \cup PlusTokens \subseteq KwSet
                /\ MinusTokens \cap KwSet = {})

\* C10 witness: a call with "*" and an include token that is not a keyword
\* returned true, on a record without keywords.
C10_Witness ==
    /\ kw_pc = "return"
    /\ star_token \in KwTokens
    /\ PlusTokens \cup LiteralTokens # {}
    /\ kw_metadata = EmptyMap
    /\ kw_result = TRUE

\* ---------------------------------------------------------------- C11
\* the triple a step of the triple loop has just visited
Visited(t) == pc = "rdf" /\ t \in corpus'[cur].graph /\ t \notin corpus[cur].graph

\* a namespace's four counters, 0 for a namespace without Statistics entry
Counters(nss, ns) ==
    IF ns \in DOMAIN nss
    THEN <<nss[ns].triples, nss[ns].classes, nss[ns].properties, nss[ns].individuals>>
    ELSE <<0, 0, 0, 0>>

\* C11: visiting a triple whose subject has no resolvable namespace (a blank
\* node, a literal, a URI without namespace structure) leaves every
\* namespace's triple, class, property and individual counter and the whole
\* Reference Table as they were, whatever its predicate and object are.
C11_UnresolvedSubjectChangesNothing ==
    [][\A t \in TermTriples :
          (Visited(t) /\ get_namespace(t[1]) = None) =>
              /\ \A ns \in DOMAIN namespaces \cup DOMAIN namespaces' :
                     Counters(namespaces', ns) = Counters(namespaces, ns)
              /\ references' = references]_vars

\* C11 witness: a graph with a triple a namespace was credited for and with
\* rdf:type and dependency triples on a blank node, a literal and a
\* structureless URI has been visited.
C11_Witness ==
    /\ pc = "rdf"
    /\ references # EmptyMap
    /\ \E t \in corpus[cur].graph :
           /\ t[1] \in {B1, LitA, UX}
           /\ t[2] \in {RDF_type, RDFS_subClassOf}
           /\ IsURIRef(t[3])

\* ---------------------------------------------------------------- C12
\* rnk lists every node once, with the node's own total under key
RanksAllNodes(rnk, key) ==
    /\ Len(rnk) = Len(DocNodes)
    /\ \A i \in DOMAIN DocNodes :
           \E j \in DOMAIN rnk :
               /\ rnk[j].namespace = DocNodes[i].namespace
               /\ rnk[j].id = DocNodes[i].id
               /\ rnk[j].total = DocNodes[i][key]

\* rnk is in descending order of total, equal totals in ascending namespace order
DescendingThenAlphabetical(rnk) ==
    \A i, j \in DOMAIN rnk :
        i < j => \/ rnk[i].total > rnk[j].total
                 \/ /\ rnk[i].total = rnk[j].total
                    /\ StrLess(rnk[i].namespace, rnk[j].namespace)

\* C12: in the built document ranking.most_referenced lists the namespaces
\* in descending order of incoming_references and ranking.largest_consumers
\* in descending order of outgoing_references; in both, namespaces with
\* equal totals come in ascending namespace order.
C12_RankingsDescendingAndStable ==
    pc = "built" =>
        /\ RanksAllNodes(result_doc.ranking.most_referenced, "incoming_references")
        /\ DescendingThenAlphabetical(result_doc.ranking.most_referenced)
        /\ RanksAllNodes(result_doc.ranking.largest_consumers, "outgoing_references")
        /\ DescendingThenAlphabetical(result_doc.ranking.largest_consumers)

\* C12 witness: a built document in which a later node of the node list has
\* more incoming references than an earlier one and two nodes tie, and the
\* same for the outgoing references.
C12_Witness ==
    /\ pc = "built"
    /\ \E i, j \in DOMAIN DocNodes :
           i < j /\ DocNodes[i].incoming_references < DocNodes[j].incoming_references
    /\ \E i, j \in DOMAIN DocNodes :
           i < j /\ DocNodes[i].incoming_references = DocNodes[j].incoming_references
    /\ \E i, j \in DOMAIN DocNodes :
           i < j /\ DocNodes[i].outgoing_references < DocNodes[j].outgoing_references
    /\ \E i, j \in DOMAIN DocNodes :
           i < j /\ DocNodes[i].outgoing_references = DocNodes[j].outgoing_references

\* ---------------------------------------------------------------- C13
WeightIn(refs, src, dst) == Get(Get(refs, src, EmptyMap), dst, 0)

\* the (source, destination) pairs that have an entry in refs
EntriesOf(refs) == UNION {{<<src, dst>> : dst \in DOMAIN refs[src]} : src \in DOMAIN refs}

TotalWeight(refs) ==
    LET prs == EntriesOf(refs)
    IN  SumOver(prs, [pr \in prs |-> refs[pr[1]][pr[2]]])

\* the destinations of the rules a triple satisfies, one entry per rule:
\* subject uses a foreign predicate, subject has a foreign type, subject is
\* related to a foreign object by a dependency predicate
SatisfiedRuleTargets(t) ==
    LET s_ns == get_namespace(t[1])
        p_ns == get_namespace(t[2])
        o_ns == get_namespace(t[3])
        foreign_object == s_ns # None /\ o_ns # None /\ s_ns # o_ns
    IN  (IF s_ns # None /\ p_ns # None /\ s_ns # p_ns THEN <<p_ns>> ELSE <<>>)
        \o (IF t[2] = RDF_type /\ foreign_object THEN <<o_ns>> ELSE <<>>)
        \o (IF t[2] \in DEP_PREDICATES /\ foreign_object THEN <<o_ns>> ELSE <<>>)

\* the two above, tabulated over the triples a graph may hold
RuleTargetsOf == [t \in TermTriples |-> SatisfiedRuleTargets(t)]
SubjectNsOf == [t \in TermTriples |-> get_namespace(t[1])]

\* C13: visiting one triple increases the total weight of the Reference
\* Table by the number of rules the triple satisfies; each satisfied rule
\* adds 1 from the subject's namespace to the rule's destination (the
\* predicate's namespace for the first rule, the object's for the other
\* two), also when two rules of the triple have the same destination, and no
\* other weight changes.
C13_EachSatisfiedRuleAddsOne ==
    [][\A t \in TermTriples :
          Visited(t) =>
              LET hits == RuleTargetsOf[t]
              IN  /\ TotalWeight(references') = TotalWeight(references) + Len(hits)
                  /\ \A k \in DOMAIN hits :
                         <<SubjectNsOf[t], hits[k]>> \in EntriesOf(references')
                  /\ \A pr \in EntriesOf(references) \cup EntriesOf(references') :
                         WeightIn(references', pr[1], pr[2]) =
                             WeightIn(references, pr[1], pr[2])
                             + IF pr[1] = SubjectNsOf[t]
                               THEN Cardinality({k \in DOMAIN hits : hits[k] = pr[2]})
                               ELSE 0]_vars

\* C13 witness: the only triple visited satisfied two rules with the same
\* destination, which now has weight 2.
C13_Witness ==
    /\ pc = "rdf"
    /\ \E t \in TermTriples :
           /\ corpus[cur].graph = {t}
           /\ Len(RuleTargetsOf[t]) = 2
           /\ RuleTargetsOf[t][1] = RuleTargetsOf[t][2]
           /\ WeightIn(references, SubjectNsOf[t], RuleTargetsOf[t][1]) = 2

\* ---------------------------------------------------------------- C14
\* the rule hits of the corpus from src to dst
HitsBetween(src, dst) == Cardinality({h \in RuleHits : h[4] = <<src, dst>>})

\* C14 as stated: once the files holding them are processed, every
\* owl:imports object of a declared ontology that is a URI-reference of
\* another namespace is in the Import Table under the ontology's namespace,
\* and the imports have added exactly 1 to the weight of that pair, however
\* many files or schema elements declare the import.
C14_ImportCountsOnce ==
    pc = "files" =>
        \A d \in RegisteredRdfImports :
            LET onto_ns == get_namespace(d[2])
                imp_ns == get_namespace(d[3])
            IN  /\ onto_ns \in DOMAIN imports /\ imp_ns \in imports[onto_ns]
                /\ Weight(onto_ns, imp_ns) = HitsBetween(onto_ns, imp_ns) + 1

\* ---------------------------------------------------------------- C15
\* a namespace's class, property and individual counters
Buckets(nss, ns) ==
    IF ns \in DOMAIN nss
    THEN <<nss[ns].classes, nss[ns].properties, nss[ns].individuals>>
    ELSE <<0, 0, 0>>

\* what an rdf:type triple with this object adds to the three counters
BucketOf(o) ==
    IF o \in {OWL_Class, RDFS_Class} THEN <<1, 0, 0>>
    ELSE IF o \in {RDF_Property, OWL_ObjectProperty, OWL_DatatypeProperty,
                   OWL_AnnotationProperty, OWL_OntologyProperty} THEN <<0, 1, 0>>
    ELSE <<0, 0, 1>>

\* C15: visiting an rdf:type triple whose subject and object are
\* URI-references and whose subject resolves to a namespace increments
\* exactly one of that namespace's class, property and individual counters by
\* 1: class for owl:Class and rdfs:Class, property for rdf:Property and the
\* OWL object, datatype, annotation and ontology property types, individual
\* otherwise; no other namespace's counters change, and for any other triple
\* none of the three counters changes.
C15_TypeTripleIncrementsOneBucket ==
    [][\A t \in TermTriples :
          Visited(t) =>
              LET s_ns == get_namespace(t[1])
                  typed == /\ t[2] = RDF_type
                           /\ IsURIRef(t[1]) /\ IsURIRef(t[3])
                           /\ s_ns # None
              IN  \A ns \in DOMAIN namespaces \cup DOMAIN namespaces' :
                      LET before == Buckets(namespaces, ns)
                          after == Buckets(namespaces', ns)
                          add == IF typed /\ ns = s_ns THEN BucketOf(t[3])
                                 ELSE <<0, 0, 0>>
                      IN  after = [k \in 1..3 |-> before[k] + add[k]]]_vars

\* C15 witness: the graph visited types one subject as rdfs:Class and as a
\* resource of another namespace; its namespace counts one class, no
\* property and one individual.
C15_Witness ==
    /\ pc = "rdf"
    /\ \E t, u \in corpus[cur].graph :
           /\ t[2] = RDF_type /\ u[2] = RDF_type
           /\ t[1] = u[1] /\ get_namespace(t[1]) # None
           /\ t[3] = RDFS_Class /\ u[3] = CB
           /\ Buckets(namespaces, get_namespace(t[1])) = <<1, 0, 1>>

\* ---------------------------------------------------------------- C16
\* C16: the keyword filter only drops nodes and edges.  Every node of the
\* filtered document is a node of the unfiltered one, with the same triples,
\* classes, properties, individuals, incoming_references and
\* outgoing_references (and every other field), in the same order; every
\* edge of the filtered document is an edge of the unfiltered one, with its
\* reference_count and import flag; the rankings are untouched; and the
\* Statistics Store, the Reference Table and the Import Table are unchanged.
C16_FilterOnlyDrops ==
    [][(pc = "built" /\ pc' = "done") =>
          LET before == result_doc.graph.nodes
              after == result_doc'.graph.nodes
          IN  /\ \E pos \in [DOMAIN after -> DOMAIN before] :
                     /\ \A i \in DOMAIN after : after[i] = before[pos[i]]
                     /\ \A i, j \in DOMAIN after : i < j => pos[i] < pos[j]
              /\ result_doc'.ontologies = after
              /\ result_doc'.graph.edges \subseteq result_doc.graph.edges
              /\ result_doc'.ranking = result_doc.ranking
              /\ namespaces' = namespaces
              /\ references' = references
              /\ imports' = imports]_vars

\* C16 witness: a filtered document from which a node was pruned and in
\* which a surviving node counts incoming references that no surviving edge
\* carries, i.e. references from a pruned namespace.
C16_Witness ==
    /\ pc = "done" /\ keywords # <<>>
    /\ Len(DocNodes) < Len(Unfiltered.graph.nodes)
    /\ \E n \in Range(DocNodes) :
           n.incoming_references > EdgeSum({e \in DocEdges : e.target = n.id})

\* ---------------------------------------------------------------- C17
\* C17 as stated: no edge of the built or filtered document has its source
\* equal to its target, and the source and target of every edge are ids of
\* nodes of the unfiltered node list.
C17_NoSelfLoopEdges ==
    pc \in {"built", "done"} =>
        \A e \in DocEdges :
            /\ e.source # e.target
            /\ \E n \in Range(Unfiltered.graph.nodes) : n.id = e.source
            /\ \E n \in Range(Unfiltered.graph.nodes) : n.id = e.target

\* ---------------------------------------------------------------- C18
\* the triples of g visited in one fixed order
RECURSIVE ReplayTriples(_, _, _)
ReplayTriples(self, file_str, g) ==
    IF g = {} THEN self
    ELSE LET t == CHOOSE x \in g : TRUE
         IN  ReplayTriples(process_triple(self, file_str, t), file_str, g \ {t})

\* what was read from file f, replayed with the import declarations ahead
\* of the triples
ReplayFile(self, f) ==
    IF corpus[f].kind = "xsd"
    THEN IF corpus[f].root.parsed THEN process_xsd(self, f, corpus[f].root)
         ELSE self
    ELSE ReplayTriples(process_imports(self, f, corpus[f].graph), f, corpus[f].graph)

RECURSIVE ReplayFiles(_, _)
ReplayFiles(self, order) ==
    IF order = <<>> THEN self
    ELSE ReplayFiles(ReplayFile(self, Head(order)), Tail(order))

\* the files, last first: every two files are taken in the opposite order
ReversedFiles == [i \in DOMAIN Files |-> Files[Len(Files) + 1 - i]]

\* C18: the accumulated state does not depend on the processing order.
\* Once all files are processed, whatever the order in which their triples
\* and import declarations were taken, the per-namespace counters and file
\* sets, the Reference Table and the Import Table are those of processing
\* the same files in the opposite file order, import declarations first and
\* triples in one fixed order.
C18_OrderIndependent ==
    (pc = "files" /\ todo = <<>>) =>
        Analyzer = ReplayFiles(NewAnalyzer, ReversedFiles)

\* C18 witness: all files are processed; a namespace was credited from two
\* files, a file holds several triples, and references and imports were
\* registered.
C18_Witness ==
    /\ pc = "files" /\ todo = <<>>
    /\ \E ns \in DOMAIN namespaces : Cardinality(namespaces[ns].files) >= 2
    /\ \E f \in rdf_files : Cardinality(corpus[f].graph) >= 2
    /\ references # EmptyMap
    /\ imports # EmptyMap

=============================================================================
